---- MODULE Spec2Model ----
(***************************************************************************)
(* Error representation and result propagation of the cust crate           *)
(* (crates/cust/src/error.rs): the CudaError enum, ToResult::to_result,    *)
(* Display::fmt for CudaError, derived equality, and the DropResult        *)
(* convention.                                                             *)
(*                                                                         *)
(* Enum members are modelled by their names (strings); a byte string is a  *)
(* sequence of byte values.                                                *)
(***************************************************************************)
EXTENDS Integers, Sequences, FiniteSets, TLC

\* Longest description text the driver hands back (bytes).
MaxTextLen == 1

\* Number of resource handles the caller owns initially.
MaxHandle == 2

-----------------------------------------------------------------------------
(* pub enum CudaError, #[repr(u32)]: variant name :> discriminant.         *)

CudaErrorDecl ==
       ("InvalidValue" :> 1)
    @@ ("OutOfMemory" :> 2)
    @@ ("NotInitialized" :> 3)
    @@ ("Deinitialized" :> 4)
    @@ ("ProfilerDisabled" :> 5)
    @@ ("ProfilerNotInitialized" :> 6)
    @@ ("ProfilerAlreadyStarted" :> 7)
    @@ ("ProfilerAlreadyStopped" :> 8)
    @@ ("StubLibrary" :> 34)
    @@ ("DeviceUnavailable" :> 46)
    @@ ("NoDevice" :> 100)
    @@ ("InvalidDevice" :> 101)
    @@ ("DeviceNotLicensed" :> 102)
    @@ ("InvalidImage" :> 200)
    @@ ("InvalidContext" :> 201)
    @@ ("ContextAlreadyCurrent" :> 202)
    @@ ("MapFailed" :> 205)
    @@ ("UnmapFailed" :> 206)
    @@ ("ArrayIsMapped" :> 207)
    @@ ("AlreadyMapped" :> 208)
    @@ ("NoBinaryForGpu" :> 209)
    @@ ("AlreadyAcquired" :> 210)
    @@ ("NotMapped" :> 211)
    @@ ("NotMappedAsArray" :> 212)
    @@ ("NotMappedAsPointer" :> 213)
    @@ ("EccUncorrectable" :> 214)
    @@ ("UnsupportedLimit" :> 215)
    @@ ("ContextAlreadyInUse" :> 216)
    @@ ("PeerAccessUnsupported" :> 217)
    @@ ("InvalidPtx" :> 218)
    @@ ("InvalidGraphicsContext" :> 219)
    @@ ("NvlinkUncorrectable" :> 220)
    @@ ("JitCompilerNotFound" :> 221)
    @@ ("UnsupportedPtxVersion" :> 222)
    @@ ("JitCompilationDisabled" :> 223)
    @@ ("UnsupportedExecAffinity" :> 224)
    @@ ("UnsupportedDevSideSync" :> 225)
    @@ ("InvalidSource" :> 300)
    @@ ("FileNotFound" :> 301)
    @@ ("SharedObjectSymbolNotFound" :> 302)
    @@ ("SharedObjectInitFailed" :> 303)
    @@ ("OperatingSystemError" :> 304)
    @@ ("InvalidHandle" :> 400)
    @@ ("IllegalState" :> 401)
    @@ ("LossyQuery" :> 402)
    @@ ("NotFound" :> 500)
    @@ ("NotReady" :> 600)
    @@ ("IllegalAddress" :> 700)
    @@ ("LaunchOutOfResources" :> 701)
    @@ ("LaunchTimeout" :> 702)
    @@ ("LaunchIncompatibleTexturing" :> 703)
    @@ ("PeerAccessAlreadyEnabled" :> 704)
    @@ ("PeerAccessNotEnabled" :> 705)
    @@ ("PrimaryContextActive" :> 708)
    @@ ("ContextIsDestroyed" :> 709)
    @@ ("AssertError" :> 710)
    @@ ("TooManyPeers" :> 711)
    @@ ("HostMemoryAlreadyRegistered" :> 712)
    @@ ("HostMemoryNotRegistered" :> 713)
    @@ ("HardwareStackError" :> 714)
    @@ ("IllegalInstruction" :> 715)
    @@ ("MisalignedAddress" :> 716)
    @@ ("InvalidAddressSpace" :> 717)
    @@ ("InvalidProgramCounter" :> 718)
    @@ ("LaunchFailed" :> 719)
    @@ ("CooperativeLaunchTooLarge" :> 720)
    @@ ("NotPermitted" :> 800)
    @@ ("NotSupported" :> 801)
    @@ ("SystemNotReady" :> 802)
    @@ ("SystemDriverMismatch" :> 803)
    @@ ("CompatNotSupportedOnDevice" :> 804)
    @@ ("MpsConnectionFailed" :> 805)
    @@ ("MpsRpcFailed" :> 806)
    @@ ("MpsServerNotReady" :> 807)
    @@ ("MpsMaxClientsReached" :> 808)
    @@ ("MpsMaxConnectionsReached" :> 809)
    @@ ("MpsClientTerminated" :> 810)
    @@ ("CdpNotSupported" :> 811)
    @@ ("CdpVersionMismatch" :> 812)
    @@ ("StreamCaptureUnsupported" :> 900)
    @@ ("StreamCaptureInvalid" :> 901)
    @@ ("StreamCaptureMerge" :> 902)
    @@ ("StreamCaptureUnmatched" :> 903)
    @@ ("StreamCaptureUnjoined" :> 904)
    @@ ("StreamCaptureIsolated" :> 905)
    @@ ("StreamCaptureImplicit" :> 906)
    @@ ("CapturedEvent" :> 907)
    @@ ("StreamCaptureWrongThread" :> 908)
    @@ ("Timeout" :> 909)
    @@ ("GraphExecUpdateFailure" :> 910)
    @@ ("ExternalDevice" :> 911)
    @@ ("InvalidClusterSize" :> 912)
    @@ ("FunctionNotLoaded" :> 913)
    @@ ("InvalidResourceType" :> 914)
    @@ ("InvalidResourceConfiguration" :> 915)
    @@ ("UnknownError" :> 999)
    @@ ("InvalidMemoryAllocation" :> 100100)
    @@ ("OptixError" :> 100101)

CudaError == DOMAIN CudaErrorDecl

\* The "cust errors" group of the enum: variants no driver call produces.
BindingPrivate == {"InvalidMemoryAllocation", "OptixError"}

\* Faulty variant: UnknownError numbered one past the driver's range.
DiscriminantUnknownPastRange(e) ==
    IF e = "UnknownError" THEN CudaErrorDecl[e] + 1 ELSE CudaErrorDecl[e]

\* Faulty variant: StubLibrary given the number already used by InvalidValue.
DiscriminantCollision(e) ==
    IF e = "StubLibrary" THEN CudaErrorDecl["InvalidValue"] ELSE CudaErrorDecl[e]

\* `e as u32`
Discriminant(e) == CudaErrorDecl[e]

-----------------------------------------------------------------------------
(* sys::cudaError_enum, the driver's status enum: member name :> value.    *)
(* The declaration lives in the sys crate; the values are the driver       *)
(* header's.                                                               *)

cudaError_enum ==
       ("CUDA_SUCCESS" :> 0)
    @@ ("CUDA_ERROR_INVALID_VALUE" :> 1)
    @@ ("CUDA_ERROR_OUT_OF_MEMORY" :> 2)
    @@ ("CUDA_ERROR_NOT_INITIALIZED" :> 3)
    @@ ("CUDA_ERROR_DEINITIALIZED" :> 4)
    @@ ("CUDA_ERROR_PROFILER_DISABLED" :> 5)
    @@ ("CUDA_ERROR_PROFILER_NOT_INITIALIZED" :> 6)
    @@ ("CUDA_ERROR_PROFILER_ALREADY_STARTED" :> 7)
    @@ ("CUDA_ERROR_PROFILER_ALREADY_STOPPED" :> 8)
    @@ ("CUDA_ERROR_STUB_LIBRARY" :> 34)
    @@ ("CUDA_ERROR_DEVICE_UNAVAILABLE" :> 46)
    @@ ("CUDA_ERROR_NO_DEVICE" :> 100)
    @@ ("CUDA_ERROR_INVALID_DEVICE" :> 101)
    @@ ("CUDA_ERROR_DEVICE_NOT_LICENSED" :> 102)
    @@ ("CUDA_ERROR_INVALID_IMAGE" :> 200)
    @@ ("CUDA_ERROR_INVALID_CONTEXT" :> 201)
    @@ ("CUDA_ERROR_CONTEXT_ALREADY_CURRENT" :> 202)
    @@ ("CUDA_ERROR_MAP_FAILED" :> 205)
    @@ ("CUDA_ERROR_UNMAP_FAILED" :> 206)
    @@ ("CUDA_ERROR_ARRAY_IS_MAPPED" :> 207)
    @@ ("CUDA_ERROR_ALREADY_MAPPED" :> 208)
    @@ ("CUDA_ERROR_NO_BINARY_FOR_GPU" :> 209)
    @@ ("CUDA_ERROR_ALREADY_ACQUIRED" :> 210)
    @@ ("CUDA_ERROR_NOT_MAPPED" :> 211)
    @@ ("CUDA_ERROR_NOT_MAPPED_AS_ARRAY" :> 212)
    @@ ("CUDA_ERROR_NOT_MAPPED_AS_POINTER" :> 213)
    @@ ("CUDA_ERROR_ECC_UNCORRECTABLE" :> 214)
    @@ ("CUDA_ERROR_UNSUPPORTED_LIMIT" :> 215)
    @@ ("CUDA_ERROR_CONTEXT_ALREADY_IN_USE" :> 216)
    @@ ("CUDA_ERROR_PEER_ACCESS_UNSUPPORTED" :> 217)
    @@ ("CUDA_ERROR_INVALID_PTX" :> 218)
    @@ ("CUDA_ERROR_INVALID_GRAPHICS_CONTEXT" :> 219)
    @@ ("CUDA_ERROR_NVLINK_UNCORRECTABLE" :> 220)
    @@ ("CUDA_ERROR_JIT_COMPILER_NOT_FOUND" :> 221)
    @@ ("CUDA_ERROR_UNSUPPORTED_PTX_VERSION" :> 222)
    @@ ("CUDA_ERROR_JIT_COMPILATION_DISABLED" :> 223)
    @@ ("CUDA_ERROR_UNSUPPORTED_EXEC_AFFINITY" :> 224)
    @@ ("CUDA_ERROR_UNSUPPORTED_DEVSIDE_SYNC" :> 225)
    @@ ("CUDA_ERROR_INVALID_SOURCE" :> 300)
    @@ ("CUDA_ERROR_FILE_NOT_FOUND" :> 301)
    @@ ("CUDA_ERROR_SHARED_OBJECT_SYMBOL_NOT_FOUND" :> 302)
    @@ ("CUDA_ERROR_SHARED_OBJECT_INIT_FAILED" :> 303)
    @@ ("CUDA_ERROR_OPERATING_SYSTEM" :> 304)
    @@ ("CUDA_ERROR_INVALID_HANDLE" :> 400)
    @@ ("CUDA_ERROR_ILLEGAL_STATE" :> 401)
    @@ ("CUDA_ERROR_LOSSY_QUERY" :> 402)
    @@ ("CUDA_ERROR_NOT_FOUND" :> 500)
    @@ ("CUDA_ERROR_NOT_READY" :> 600)
    @@ ("CUDA_ERROR_ILLEGAL_ADDRESS" :> 700)
    @@ ("CUDA_ERROR_LAUNCH_OUT_OF_RESOURCES" :> 701)
    @@ ("CUDA_ERROR_LAUNCH_TIMEOUT" :> 702)
    @@ ("CUDA_ERROR_LAUNCH_INCOMPATIBLE_TEXTURING" :> 703)
    @@ ("CUDA_ERROR_PEER_ACCESS_ALREADY_ENABLED" :> 704)
    @@ ("CUDA_ERROR_PEER_ACCESS_NOT_ENABLED" :> 705)
    @@ ("CUDA_ERROR_PRIMARY_CONTEXT_ACTIVE" :> 708)
    @@ ("CUDA_ERROR_CONTEXT_IS_DESTROYED" :> 709)
    @@ ("CUDA_ERROR_ASSERT" :> 710)
    @@ ("CUDA_ERROR_TOO_MANY_PEERS" :> 711)
    @@ ("CUDA_ERROR_HOST_MEMORY_ALREADY_REGISTERED" :> 712)
    @@ ("CUDA_ERROR_HOST_MEMORY_NOT_REGISTERED" :> 713)
    @@ ("CUDA_ERROR_HARDWARE_STACK_ERROR" :> 714)
    @@ ("CUDA_ERROR_ILLEGAL_INSTRUCTION" :> 715)
    @@ ("CUDA_ERROR_MISALIGNED_ADDRESS" :> 716)
    @@ ("CUDA_ERROR_INVALID_ADDRESS_SPACE" :> 717)
    @@ ("CUDA_ERROR_INVALID_PC" :> 718)
    @@ ("CUDA_ERROR_LAUNCH_FAILED" :> 719)
    @@ ("CUDA_ERROR_COOPERATIVE_LAUNCH_TOO_LARGE" :> 720)
    @@ ("CUDA_ERROR_NOT_PERMITTED" :> 800)
    @@ ("CUDA_ERROR_NOT_SUPPORTED" :> 801)
    @@ ("CUDA_ERROR_SYSTEM_NOT_READY" :> 802)
    @@ ("CUDA_ERROR_SYSTEM_DRIVER_MISMATCH" :> 803)
    @@ ("CUDA_ERROR_COMPAT_NOT_SUPPORTED_ON_DEVICE" :> 804)
    @@ ("CUDA_ERROR_MPS_CONNECTION_FAILED" :> 805)
    @@ ("CUDA_ERROR_MPS_RPC_FAILURE" :> 806)
    @@ ("CUDA_ERROR_MPS_SERVER_NOT_READY" :> 807)
    @@ ("CUDA_ERROR_MPS_MAX_CLIENTS_REACHED" :> 808)
    @@ ("CUDA_ERROR_MPS_MAX_CONNECTIONS_REACHED" :> 809)
    @@ ("CUDA_ERROR_MPS_CLIENT_TERMINATED" :> 810)
    @@ ("CUDA_ERROR_CDP_NOT_SUPPORTED" :> 811)
    @@ ("CUDA_ERROR_CDP_VERSION_MISMATCH" :> 812)
    @@ ("CUDA_ERROR_STREAM_CAPTURE_UNSUPPORTED" :> 900)
    @@ ("CUDA_ERROR_STREAM_CAPTURE_INVALIDATED" :> 901)
    @@ ("CUDA_ERROR_STREAM_CAPTURE_MERGE" :> 902)
    @@ ("CUDA_ERROR_STREAM_CAPTURE_UNMATCHED" :> 903)
    @@ ("CUDA_ERROR_STREAM_CAPTURE_UNJOINED" :> 904)
    @@ ("CUDA_ERROR_STREAM_CAPTURE_ISOLATION" :> 905)
    @@ ("CUDA_ERROR_STREAM_CAPTURE_IMPLICIT" :> 906)
    @@ ("CUDA_ERROR_CAPTURED_EVENT" :> 907)
    @@ ("CUDA_ERROR_STREAM_CAPTURE_WRONG_THREAD" :> 908)
    @@ ("CUDA_ERROR_TIMEOUT" :> 909)
    @@ ("CUDA_ERROR_GRAPH_EXEC_UPDATE_FAILURE" :> 910)
    @@ ("CUDA_ERROR_EXTERNAL_DEVICE" :> 911)
    @@ ("CUDA_ERROR_INVALID_CLUSTER_SIZE" :> 912)
    @@ ("CUDA_ERROR_FUNCTION_NOT_LOADED" :> 913)
    @@ ("CUDA_ERROR_INVALID_RESOURCE_TYPE" :> 914)
    @@ ("CUDA_ERROR_INVALID_RESOURCE_CONFIGURATION" :> 915)
    @@ ("CUDA_ERROR_UNKNOWN" :> 999)

\* The members of the driver's status enum known to this binding.
RawCodes == DOMAIN cudaError_enum

RawValue(r) == cudaError_enum[r]

\* Status codes of a driver newer than the binding: no member of
\* cudaError_enum, no arm in to_result.
NewerDriverCodes == {"CUDA_ERROR_TENSOR_MEMORY_LEAK", "CUDA_ERROR_KEY_ROTATION"}

\* The member of each value, for the values that have one.
RawValues == {RawValue(r) : r \in RawCodes}
MemberOf == [value \in RawValues |-> CHOOSE r \in RawCodes : RawValue(r) = value]

\* mem::transmute(value): the member whose value is `value`. A value with no
\* member yields no valid cudaError_enum.
InvalidEnum == "<invalid>"
transmute(value) == IF value \in RawValues THEN MemberOf[value] ELSE InvalidEnum

-----------------------------------------------------------------------------
(* CudaResult<()> and the match of ToResult::to_result.                    *)

Ok == <<"Ok">>
Err(e) == <<"Err", e>>
IsErr(res) == res[1] = "Err"

\* Each Err arm of the match: raw member :> variant.
ToResultArms ==
       ("CUDA_ERROR_INVALID_VALUE" :> "InvalidValue")
    @@ ("CUDA_ERROR_OUT_OF_MEMORY" :> "OutOfMemory")
    @@ ("CUDA_ERROR_NOT_INITIALIZED" :> "NotInitialized")
    @@ ("CUDA_ERROR_DEINITIALIZED" :> "Deinitialized")
    @@ ("CUDA_ERROR_PROFILER_DISABLED" :> "ProfilerDisabled")
    @@ ("CUDA_ERROR_PROFILER_NOT_INITIALIZED" :> "ProfilerNotInitialized")
    @@ ("CUDA_ERROR_PROFILER_ALREADY_STARTED" :> "ProfilerAlreadyStarted")
    @@ ("CUDA_ERROR_PROFILER_ALREADY_STOPPED" :> "ProfilerAlreadyStopped")
    @@ ("CUDA_ERROR_NO_DEVICE" :> "NoDevice")
    @@ ("CUDA_ERROR_INVALID_DEVICE" :> "InvalidDevice")
    @@ ("CUDA_ERROR_INVALID_IMAGE" :> "InvalidImage")
    @@ ("CUDA_ERROR_INVALID_CONTEXT" :> "InvalidContext")
    @@ ("CUDA_ERROR_CONTEXT_ALREADY_CURRENT" :> "ContextAlreadyCurrent")
    @@ ("CUDA_ERROR_MAP_FAILED" :> "MapFailed")
    @@ ("CUDA_ERROR_UNMAP_FAILED" :> "UnmapFailed")
    @@ ("CUDA_ERROR_ARRAY_IS_MAPPED" :> "ArrayIsMapped")
    @@ ("CUDA_ERROR_ALREADY_MAPPED" :> "AlreadyMapped")
    @@ ("CUDA_ERROR_NO_BINARY_FOR_GPU" :> "NoBinaryForGpu")
    @@ ("CUDA_ERROR_ALREADY_ACQUIRED" :> "AlreadyAcquired")
    @@ ("CUDA_ERROR_NOT_MAPPED" :> "NotMapped")
    @@ ("CUDA_ERROR_NOT_MAPPED_AS_ARRAY" :> "NotMappedAsArray")
    @@ ("CUDA_ERROR_NOT_MAPPED_AS_POINTER" :> "NotMappedAsPointer")
    @@ ("CUDA_ERROR_ECC_UNCORRECTABLE" :> "EccUncorrectable")
    @@ ("CUDA_ERROR_UNSUPPORTED_LIMIT" :> "UnsupportedLimit")
    @@ ("CUDA_ERROR_CONTEXT_ALREADY_IN_USE" :> "ContextAlreadyInUse")
    @@ ("CUDA_ERROR_PEER_ACCESS_UNSUPPORTED" :> "PeerAccessUnsupported")
    @@ ("CUDA_ERROR_INVALID_PTX" :> "InvalidPtx")
    @@ ("CUDA_ERROR_INVALID_GRAPHICS_CONTEXT" :> "InvalidGraphicsContext")
    @@ ("CUDA_ERROR_NVLINK_UNCORRECTABLE" :> "NvlinkUncorrectable")
    @@ ("CUDA_ERROR_INVALID_SOURCE" :> "InvalidSource")
    @@ ("CUDA_ERROR_FILE_NOT_FOUND" :> "FileNotFound")
    @@ ("CUDA_ERROR_SHARED_OBJECT_SYMBOL_NOT_FOUND" :> "SharedObjectSymbolNotFound")
    @@ ("CUDA_ERROR_SHARED_OBJECT_INIT_FAILED" :> "SharedObjectInitFailed")
    @@ ("CUDA_ERROR_OPERATING_SYSTEM" :> "OperatingSystemError")
    @@ ("CUDA_ERROR_INVALID_HANDLE" :> "InvalidHandle")
    @@ ("CUDA_ERROR_NOT_FOUND" :> "NotFound")
    @@ ("CUDA_ERROR_NOT_READY" :> "NotReady")
    @@ ("CUDA_ERROR_ILLEGAL_ADDRESS" :> "IllegalAddress")
    @@ ("CUDA_ERROR_LAUNCH_OUT_OF_RESOURCES" :> "LaunchOutOfResources")
    @@ ("CUDA_ERROR_LAUNCH_TIMEOUT" :> "LaunchTimeout")
    @@ ("CUDA_ERROR_LAUNCH_INCOMPATIBLE_TEXTURING" :> "LaunchIncompatibleTexturing")
    @@ ("CUDA_ERROR_PEER_ACCESS_ALREADY_ENABLED" :> "PeerAccessAlreadyEnabled")
    @@ ("CUDA_ERROR_PEER_ACCESS_NOT_ENABLED" :> "PeerAccessNotEnabled")
    @@ ("CUDA_ERROR_PRIMARY_CONTEXT_ACTIVE" :> "PrimaryContextActive")
    @@ ("CUDA_ERROR_CONTEXT_IS_DESTROYED" :> "ContextIsDestroyed")
    @@ ("CUDA_ERROR_ASSERT" :> "AssertError")
    @@ ("CUDA_ERROR_TOO_MANY_PEERS" :> "TooManyPeers")
    @@ ("CUDA_ERROR_HOST_MEMORY_ALREADY_REGISTERED" :> "HostMemoryAlreadyRegistered")
    @@ ("CUDA_ERROR_HOST_MEMORY_NOT_REGISTERED" :> "HostMemoryNotRegistered")
    @@ ("CUDA_ERROR_HARDWARE_STACK_ERROR" :> "HardwareStackError")
    @@ ("CUDA_ERROR_ILLEGAL_INSTRUCTION" :> "IllegalInstruction")
    @@ ("CUDA_ERROR_MISALIGNED_ADDRESS" :> "MisalignedAddress")
    @@ ("CUDA_ERROR_INVALID_ADDRESS_SPACE" :> "InvalidAddressSpace")
    @@ ("CUDA_ERROR_INVALID_PC" :> "InvalidProgramCounter")
    @@ ("CUDA_ERROR_LAUNCH_FAILED" :> "LaunchFailed")
    @@ ("CUDA_ERROR_NOT_PERMITTED" :> "NotPermitted")
    @@ ("CUDA_ERROR_NOT_SUPPORTED" :> "NotSupported")
    @@ ("CUDA_ERROR_STUB_LIBRARY" :> "StubLibrary")
    @@ ("CUDA_ERROR_DEVICE_UNAVAILABLE" :> "DeviceUnavailable")
    @@ ("CUDA_ERROR_DEVICE_NOT_LICENSED" :> "DeviceNotLicensed")
    @@ ("CUDA_ERROR_JIT_COMPILER_NOT_FOUND" :> "JitCompilerNotFound")
    @@ ("CUDA_ERROR_UNSUPPORTED_PTX_VERSION" :> "UnsupportedPtxVersion")
    @@ ("CUDA_ERROR_JIT_COMPILATION_DISABLED" :> "JitCompilationDisabled")
    @@ ("CUDA_ERROR_UNSUPPORTED_EXEC_AFFINITY" :> "UnsupportedExecAffinity")
    @@ ("CUDA_ERROR_UNSUPPORTED_DEVSIDE_SYNC" :> "UnsupportedDevSideSync")
    @@ ("CUDA_ERROR_ILLEGAL_STATE" :> "IllegalState")
    @@ ("CUDA_ERROR_LOSSY_QUERY" :> "LossyQuery")
    @@ ("CUDA_ERROR_COOPERATIVE_LAUNCH_TOO_LARGE" :> "CooperativeLaunchTooLarge")
    @@ ("CUDA_ERROR_SYSTEM_NOT_READY" :> "SystemNotReady")
    @@ ("CUDA_ERROR_SYSTEM_DRIVER_MISMATCH" :> "SystemDriverMismatch")
    @@ ("CUDA_ERROR_COMPAT_NOT_SUPPORTED_ON_DEVICE" :> "CompatNotSupportedOnDevice")
    @@ ("CUDA_ERROR_MPS_CONNECTION_FAILED" :> "MpsConnectionFailed")
    @@ ("CUDA_ERROR_MPS_RPC_FAILURE" :> "MpsRpcFailed")
    @@ ("CUDA_ERROR_MPS_SERVER_NOT_READY" :> "MpsServerNotReady")
    @@ ("CUDA_ERROR_MPS_MAX_CLIENTS_REACHED" :> "MpsMaxClientsReached")
    @@ ("CUDA_ERROR_MPS_MAX_CONNECTIONS_REACHED" :> "MpsMaxConnectionsReached")
    @@ ("CUDA_ERROR_MPS_CLIENT_TERMINATED" :> "MpsClientTerminated")
    @@ ("CUDA_ERROR_CDP_NOT_SUPPORTED" :> "CdpNotSupported")
    @@ ("CUDA_ERROR_CDP_VERSION_MISMATCH" :> "CdpVersionMismatch")
    @@ ("CUDA_ERROR_STREAM_CAPTURE_UNSUPPORTED" :> "StreamCaptureUnsupported")
    @@ ("CUDA_ERROR_STREAM_CAPTURE_INVALIDATED" :> "StreamCaptureInvalid")
    @@ ("CUDA_ERROR_STREAM_CAPTURE_MERGE" :> "StreamCaptureMerge")
    @@ ("CUDA_ERROR_STREAM_CAPTURE_UNMATCHED" :> "StreamCaptureUnmatched")
    @@ ("CUDA_ERROR_STREAM_CAPTURE_UNJOINED" :> "StreamCaptureUnjoined")
    @@ ("CUDA_ERROR_STREAM_CAPTURE_ISOLATION" :> "StreamCaptureIsolated")
    @@ ("CUDA_ERROR_STREAM_CAPTURE_IMPLICIT" :> "StreamCaptureImplicit")
    @@ ("CUDA_ERROR_CAPTURED_EVENT" :> "CapturedEvent")
    @@ ("CUDA_ERROR_STREAM_CAPTURE_WRONG_THREAD" :> "StreamCaptureWrongThread")
    @@ ("CUDA_ERROR_TIMEOUT" :> "Timeout")
    @@ ("CUDA_ERROR_GRAPH_EXEC_UPDATE_FAILURE" :> "GraphExecUpdateFailure")
    @@ ("CUDA_ERROR_EXTERNAL_DEVICE" :> "ExternalDevice")
    @@ ("CUDA_ERROR_INVALID_CLUSTER_SIZE" :> "InvalidClusterSize")
    @@ ("CUDA_ERROR_FUNCTION_NOT_LOADED" :> "FunctionNotLoaded")
    @@ ("CUDA_ERROR_INVALID_RESOURCE_TYPE" :> "InvalidResourceType")
    @@ ("CUDA_ERROR_INVALID_RESOURCE_CONFIGURATION" :> "InvalidResourceConfiguration")
    @@ ("CUDA_ERROR_UNKNOWN" :> "UnknownError")

\* Faulty variant: CUDA_ERROR_NOT_READY treated as success.
to_result_not_ready_ok(r) ==
    IF r \in {"CUDA_SUCCESS", "CUDA_ERROR_NOT_READY"} THEN Ok ELSE Err(ToResultArms[r])

\* Faulty variant: the MPS_RPC_FAILURE arm pasted from the arm above it.
to_result_pasted_arm(r) ==
    IF r = "CUDA_SUCCESS" THEN Ok
    ELSE IF r = "CUDA_ERROR_MPS_RPC_FAILURE" THEN Err("MpsConnectionFailed")
    ELSE Err(ToResultArms[r])

\* Faulty variant: the arms of LAUNCH_TIMEOUT and TIMEOUT exchanged.
to_result_exchanged(r) ==
    IF r = "CUDA_SUCCESS" THEN Ok
    ELSE IF r = "CUDA_ERROR_LAUNCH_TIMEOUT" THEN Err("Timeout")
    ELSE IF r = "CUDA_ERROR_TIMEOUT" THEN Err("LaunchTimeout")
    ELSE Err(ToResultArms[r])

to_result(r) ==
    IF r = "CUDA_SUCCESS" THEN Ok ELSE Err(ToResultArms[r])

\* A value of cudaError_enum that is none of its members makes the match
\* undefined behaviour: the build may take any arm, or trap.
Trap == <<"Trap">>
UndefinedMatch == {to_result(r) : r \in DOMAIN ToResultArms \cup {"CUDA_SUCCESS"}} \cup {Trap}

-----------------------------------------------------------------------------
(* Byte strings.                                                           *)

\* Bytes a driver description is built from here: 'a', '"' and 0xC3.
TextBytes == {97, 34, 195}
\* Description texts: non-empty, at most MaxTextLen bytes.
Texts == UNION {[1..n -> TextBytes] : n \in 1..MaxTextLen}

RECURSIVE Concat(_)
Concat(ss) == IF ss = <<>> THEN <<>> ELSE Head(ss) \o Concat(Tail(ss))

HexDigit(n) == IF n < 10 THEN 48 + n ELSE 87 + n

\* core::ascii::escape_default, which Debug for CStr applies to each byte.
escape_default(b) ==
    IF b = 9 THEN <<92, 116>>
    ELSE IF b = 13 THEN <<92, 114>>
    ELSE IF b = 10 THEN <<92, 110>>
    ELSE IF b \in {39, 34, 92} THEN <<92, b>>
    ELSE IF b >= 32 /\ b <= 126 THEN <<b>>
    ELSE <<92, 120, HexDigit(b \div 16), HexDigit(b % 16)>>

\* write!(f, "{:?}", cstr): the bytes escaped, between double quotes.
DebugCStr(text) ==
    <<34>> \o Concat([i \in 1..Len(text) |-> escape_default(text[i])]) \o <<34>>

-----------------------------------------------------------------------------
(* The driver's description lookup, cuGetErrorString.                      *)

\* Statuses with which the driver refuses a lookup.
LookupFailures == {"CUDA_ERROR_INVALID_VALUE", "CUDA_ERROR_NOT_INITIALIZED"}

\* What the driver answers to the next lookup: its status, and the text it
\* points *pStr at when the status is CUDA_SUCCESS.
DriverStates ==
    {[status |-> "CUDA_SUCCESS", text |-> t] : t \in Texts}
        \cup {[status |-> s, text |-> <<>>] : s \in LookupFailures}

NoLookup == [code |-> "none", status |-> "none", text |-> <<>>]

-----------------------------------------------------------------------------
(* impl fmt::Display for CudaError                                         *)

\* Faulty variant: the two literals attached to the wrong variants.
PrivateLiteralMisplaced(e) ==
    IF e = "InvalidMemoryAllocation"
    THEN <<79, 112, 116, 105, 88, 32, 101, 114, 114, 111, 114>>
    ELSE <<73, 110, 118, 97, 108, 105, 100, 32, 109, 101, 109, 111, 114, 121, 32,
           97, 108, 108, 111, 99, 97, 116, 105, 111, 110>>

\* The literals of the first two arms: "Invalid memory allocation", "OptiX error".
PrivateLiteral(e) ==
    IF e = "InvalidMemoryAllocation"
    THEN <<73, 110, 118, 97, 108, 105, 100, 32, 109, 101, 109, 111, 114, 121, 32,
           97, 108, 108, 111, 99, 97, 116, 105, 111, 110>>
    ELSE <<79, 112, 116, 105, 88, 32, 101, 114, 114, 111, 114>>

\* The literal of the last arm: "Unknown error".
UnknownLiteral == <<85, 110, 107, 110, 111, 119, 110, 32, 101, 114, 114, 111, 114>>

\* fmt(&self, f) with the driver in state d: the fmt::Result, the bytes written
\* to f, the arm taken and the lookup made.
fmt(e, d) ==
    IF e \in {"InvalidMemoryAllocation", "OptixError"}
    THEN [result |-> "Ok", out |-> PrivateLiteral(e),
          arm |-> IF e = "InvalidMemoryAllocation" THEN 1 ELSE 2, lookup |-> NoLookup]
    ELSE IF Discriminant(e) <= 999
    THEN LET value == Discriminant(e)
             call == [code |-> transmute(value), status |-> d.status, text |-> d.text]
         IN  IF IsErr(to_result(d.status))
             THEN [result |-> "Err", out |-> <<>>, arm |-> 3, lookup |-> call]
             ELSE [result |-> "Ok", out |-> DebugCStr(d.text), arm |-> 3, lookup |-> call]
    ELSE [result |-> "Ok", out |-> UnknownLiteral, arm |-> 4, lookup |-> NoLookup]

\* #[derive(PartialEq)] on a fieldless enum: the discriminants are compared.
eq(a, b) == Discriminant(a) = Discriminant(b)

-----------------------------------------------------------------------------
(* DropResult<T> = Result<(), (CudaError, T)>                              *)

Handles == 1..MaxHandle
NullHandle == 0

DropOk == <<"Ok">>

\* Faulty variant: the failure arm of a plain CudaResult, the value left behind.
DropErrWithoutValue(e, v) == <<"Err", <<e, NullHandle>>>>

DropErr(e, v) == <<"Err", <<e, v>>>>

-----------------------------------------------------------------------------
VARIABLES
    op,         \* the operation that acted last
    raw,        \* to_result: the status code it was given
    result,     \* to_result: what it returned
    driver,     \* the driver's answer to a description lookup
    err,        \* fmt: the CudaError rendered
    out,        \* fmt: the bytes written to the formatter
    fmtResult,  \* fmt: "Ok", or "Err" for fmt::Error
    arm,        \* fmt: the match arm taken
    lookup,     \* fmt: the lookup made of the driver, or NoLookup
    lhs,        \* eq: self
    rhs,        \* eq: other
    eqResult,   \* eq: what it returned
    live,       \* the handles not yet released
    dropArg,    \* drop: the handle given
    dropRaw,    \* drop: the status of the driver's teardown call
    dropResult  \* drop: the DropResult returned

translateVars == <<raw, result>>
renderVars == <<driver, err, out, fmtResult, arm, lookup>>
eqVars == <<lhs, rhs, eqResult>>
dropVars == <<live, dropArg, dropRaw, dropResult>>
vars == <<op, translateVars, renderVars, eqVars, dropVars>>

Init ==
    /\ op = "init"
    /\ raw = "none" /\ result = <<"none">>
    /\ driver = [status |-> "CUDA_SUCCESS", text |-> <<97>>]
    /\ err = "none" /\ out = <<>> /\ fmtResult = "none" /\ arm = 0 /\ lookup = NoLookup
    /\ lhs = "none" /\ rhs = "none" /\ eqResult = FALSE
    /\ live = Handles /\ dropArg = NullHandle /\ dropRaw = "none" /\ dropResult = <<"none">>

\* The same, with the left operand of a comparison drawn from the enum.
InitEq ==
    /\ op = "init"
    /\ raw = "none" /\ result = <<"none">>
    /\ driver = [status |-> "CUDA_SUCCESS", text |-> <<97>>]
    /\ err = "none" /\ out = <<>> /\ fmtResult = "none" /\ arm = 0 /\ lookup = NoLookup
    /\ lhs \in CudaError /\ rhs = "none" /\ eqResult = FALSE
    /\ live = Handles /\ dropArg = NullHandle /\ dropRaw = "none" /\ dropResult = <<"none">>

\* r.to_result() for a member r of cudaError_enum.
ToResult(r) ==
    /\ op' = "to_result"
    /\ raw' = r
    /\ result' = to_result(r)
    /\ UNCHANGED <<renderVars, eqVars, dropVars>>

\* r.to_result() for a value that is no member of cudaError_enum.
ToResultNewer(r) ==
    /\ op' = "to_result"
    /\ raw' = r
    /\ result' \in UndefinedMatch
    /\ UNCHANGED <<renderVars, eqVars, dropVars>>

\* The driver's condition changes (initialised or not, its texts).
DriverStep(d) ==
    /\ d # driver
    /\ op' = "driver"
    /\ driver' = d
    /\ UNCHANGED <<translateVars, err, out, fmtResult, arm, lookup, eqVars, dropVars>>

\* write!(f, "{}", e)
Fmt(e) ==
    \E r \in {fmt(e, driver)} :
    /\ op' = "fmt"
    /\ err' = e
    /\ out' = r.out
    /\ fmtResult' = r.result
    /\ arm' = r.arm
    /\ lookup' = r.lookup
    /\ UNCHANGED <<driver, translateVars, eqVars, dropVars>>

\* lhs == b
Eq(b) ==
    /\ lhs \in CudaError
    /\ op' = "eq"
    /\ rhs' = b
    /\ eqResult' = eq(lhs, b)
    /\ UNCHANGED <<lhs, translateVars, renderVars, dropVars>>

\* A drop function of the binding: the driver's teardown of h returned x.
Drop(h, x) ==
    /\ h \in live
    /\ op' = "drop"
    /\ dropArg' = h
    /\ dropRaw' = x
    /\ LET r == to_result(x) IN
         IF IsErr(r)
         THEN dropResult' = DropErr(r[2], h) /\ live' = live
         ELSE dropResult' = DropOk /\ live' = live \ {h}
    /\ UNCHANGED <<translateVars, renderVars, eqVars>>

NextTranslate ==
    \/ \E r \in RawCodes : ToResult(r)
    \/ \E r \in NewerDriverCodes : ToResultNewer(r)

NextRender ==
    \/ \E d \in DriverStates : DriverStep(d)
    \/ \E e \in CudaError : Fmt(e)

NextEq == \E b \in CudaError : Eq(b)

NextDrop == \E h \in Handles, x \in RawCodes : Drop(h, x)

\* One specification per operation: the operations share no state.
SpecTranslate == Init /\ [][NextTranslate]_vars
SpecRender == Init /\ [][NextRender]_vars
SpecEq == InitEq /\ [][NextEq]_vars
SpecDrop == Init /\ [][NextDrop]_vars

-----------------------------------------------------------------------------
(* Properties.                                                             *)

\* C1: to_result is total on the members of the driver's status enum: every
\* member has an arm, the call returns (no trap), it returns Ok(()) exactly for
\* CUDA_SUCCESS, and otherwise Err(v) for exactly one CudaError variant v.
C1_ToResultTotal ==
    (op = "to_result" /\ raw \in RawCodes) =>
        /\ raw \in DOMAIN ToResultArms \cup {"CUDA_SUCCESS"}
        /\ result # Trap
        /\ (result = Ok <=> raw = "CUDA_SUCCESS")
        /\ (raw # "CUDA_SUCCESS" =>
                Cardinality({v \in CudaError : result = Err(v)}) = 1)

C1_Witness ==
    op = "to_result" /\ raw = "CUDA_ERROR_OUT_OF_MEMORY" /\ result = Err("OutOfMemory")

\* C2: a raw status value with no arm in to_result is mapped to
\* Err(UnknownError): never success, never a trap.
C2_UnlistedIsUnknownError ==
    (op = "to_result" /\ raw \notin DOMAIN ToResultArms \cup {"CUDA_SUCCESS"}) =>
        result = Err("UnknownError")

\* C3: rendering never fails: fmt returns Ok with a non-empty text for every
\* variant, and when the driver refuses the lookup the text is the fallback,
\* "error description unavailable".
C3_RenderNeverFails ==
    op = "fmt" =>
        /\ fmtResult = "Ok"
        /\ Len(out) > 0
        /\ (lookup # NoLookup /\ lookup.status # "CUDA_SUCCESS") =>
               out = <<101, 114, 114, 111, 114, 32, 100, 101, 115, 99, 114, 105, 112,
                       116, 105, 111, 110, 32, 117, 110, 97, 118, 97, 105, 108, 97,
                       98, 108, 101>>

\* C4: round trip: for every variant other than the two binding-private ones,
\* the raw code fmt recovers from the discriminant has that discriminant as its
\* value, and to_result maps it back to the same variant.
C4_RoundTrip ==
    (op = "fmt" /\ err \notin BindingPrivate) =>
        /\ lookup.code \in RawCodes
        /\ RawValue(lookup.code) = Discriminant(err)
        /\ to_result(lookup.code) = Err(err)

C4_Witness ==
    op = "fmt" /\ err = "StubLibrary" /\ lookup.code = "CUDA_ERROR_STUB_LIBRARY"

\* C5: to_result is one-to-one on the non-success codes: no other non-success
\* member is mapped to the variant the call returned.
C5_OneToOne ==
    (op = "to_result" /\ raw \in RawCodes /\ IsErr(result)) =>
        \A r2 \in RawCodes \ {raw, "CUDA_SUCCESS"} : to_result(r2) # result

C5_Witness ==
    op = "to_result" /\ raw = "CUDA_ERROR_MPS_RPC_FAILURE" /\ result = Err("MpsRpcFailed")

\* C6: no two variants share a discriminant: two CudaError values compare
\* equal exactly when they are the same variant, which is exactly when their
\* discriminants are equal.
C6_DiscriminantsUnique ==
    op = "eq" =>
        /\ eqResult <=> (lhs = rhs)
        /\ (Discriminant(lhs) = Discriminant(rhs)) <=> (lhs = rhs)

C6_Witness ==
    op = "eq" /\ lhs = "StubLibrary" /\ rhs = "InvalidValue" /\ ~eqResult

\* C7: when the lookup succeeds, rendering a driver-originated variant yields
\* the driver's text for the code whose value is the discriminant, unaltered.
C7_RenderIsDriverText ==
    (op = "fmt" /\ err \notin BindingPrivate /\ lookup.status = "CUDA_SUCCESS") =>
        /\ lookup.code \in RawCodes
        /\ RawValue(lookup.code) = Discriminant(err)
        /\ out = lookup.text

\* C8: rendering a binding-private variant writes its fixed literal
\* ("Invalid memory allocation", "OptiX error") and makes no lookup of the
\* driver, whatever the driver's state.
C8_PrivateLiteralNoDriver ==
    (op = "fmt" /\ err \in BindingPrivate) =>
        /\ fmtResult = "Ok"
        /\ lookup = NoLookup
        /\ err = "InvalidMemoryAllocation" =>
               out = <<73, 110, 118, 97, 108, 105, 100, 32, 109, 101, 109, 111, 114,
                       121, 32, 97, 108, 108, 111, 99, 97, 116, 105, 111, 110>>
        /\ err = "OptixError" =>
               out = <<79, 112, 116, 105, 88, 32, 101, 114, 114, 111, 114>>

C8_Witness ==
    /\ op = "fmt" /\ err = "InvalidMemoryAllocation"
    /\ driver.status = "CUDA_ERROR_NOT_INITIALIZED"
    /\ Len(out) = 25

\* C9: a teardown of v that fails with raw code x returns Err((e, v)), e the
\* variant to_result gives for x and v the value handed in, which stays
\* unreleased; a teardown that succeeds returns Ok(()) and releases v.
C9_DropReturnsValue ==
    op = "drop" =>
        IF dropRaw = "CUDA_SUCCESS"
        THEN dropResult = <<"Ok">> /\ dropArg \notin live
        ELSE /\ \E e \in CudaError :
                    /\ to_result(dropRaw) = Err(e)
                    /\ dropResult = <<"Err", <<e, dropArg>>>>
             /\ dropArg \in live

C9_Witness ==
    /\ op = "drop" /\ dropRaw = "CUDA_ERROR_ILLEGAL_ADDRESS"
    /\ dropResult = <<"Err", <<"IllegalAddress", MaxHandle>>>>
    /\ MaxHandle \in live

\* C10: the discriminants fall in two ranges: at least 100000 for the two
\* binding-private variants, 1..999 for every other; so fmt never takes its
\* last arm and looks the driver up for exactly the driver-originated variants.
C10_DiscriminantRanges ==
    op = "fmt" =>
        /\ arm # 4
        /\ err \in BindingPrivate =>
               Discriminant(err) >= 100000 /\ lookup = NoLookup
        /\ err \notin BindingPrivate =>
               Discriminant(err) \in 1..999 /\ lookup # NoLookup /\ arm = 3

C10_Witness ==
    op = "fmt" /\ err = "UnknownError" /\ arm = 3 /\ lookup.code = "CUDA_ERROR_UNKNOWN"

====
